---- MODULE Spec2Model ----
(***************************************************************************)
(* KEV x weekly EPSS pipeline (kev_weekly_epss_latency.py), the snapshot   *)
(* download (download_epss_weekly_2025.py) and the resumable KEV x EPSS    *)
(* table (kev_2025_epss.py).                                               *)
(*                                                                         *)
(* Dates are day numbers (an integer per calendar day), so that            *)
(* (a - b).days is a - b.  EPSS scores are floats: a float is a record     *)
(* [nan, v] where v counts thousandths (0.001 is 1, 0.15 is 150) and nan   *)
(* marks float("nan"), for which every comparison is false.                *)
(***************************************************************************)
EXTENDS Integers, Sequences, FiniteSets, TLC

VARIABLES
    pc,             \* position of the run
    exc,            \* the exception that ended the run, NoExc while there is none
    stderr,         \* the messages printed by eprint, in order
    thresholds,     \* main: thresholds, the list parsed from --thresholds
    growth,         \* main: growth, the list parsed from --growth
    verbose,        \* main: args.verbose
    df_columns,     \* read_kev_table: df.columns
    df,             \* read_kev_table: the rows df.iterrows() has yielded so far
    bad,            \* read_kev_table: bad
    kev_map,        \* read_kev_table: out; main: kev_map
    files,          \* extract_weekly_panel: files
    idx,            \* extract_weekly_panel: idx, the number of files opened so far
    snap_date,      \* extract_weekly_panel: snap_date of the file being read
    nread,          \* number of records the reader has yielded from the file being read
    matched,        \* extract_weekly_panel: matched
    matched_total,  \* extract_weekly_panel: matched_total
    missing_score_date, \* extract_weekly_panel: missing_score_date
    rows,           \* the List[PanelRow] (extract_weekly_panel: rows; main: rows)
    row_src,        \* history: for each row of rows, <<idx, nread>> of the record it came from
    out_csv,        \* the lines of the panel CSV, <<>> while it is not written
    time_to_thr,    \* dict threshold -> list of observed day counts
    cens_thr,       \* dict threshold -> censored count
    time_to_g,      \* dict growth factor -> list of observed day counts
    cens_g,         \* dict growth factor -> censored count
    used_cves,      \* number of CVEs with a baseline
    figs            \* the figures saved so far

\* download_epss_weekly_2025.py, download(url, dest, retries, timeout, sleep, verbose)
VARIABLES
    dest,           \* the file at dest
    tmp,            \* the file at dest + ".part"
    body,           \* the chunks r.iter_content of the current response will yield
    retries,        \* download: retries
    attempt,        \* download: attempt, 0 before the loop
    status,         \* r.status_code of the last response: "none", "200", "404" or "error"
    result,         \* the value download returned, "none" while it runs
    dest0,          \* history: the file at dest when download was called
    http_calls,     \* history: the number of requests.get calls made
    replaced,       \* history: the number of os.replace calls that succeeded
    rm_failed       \* history: whether an os.remove(tmp) raised OSError

argVars == <<thresholds, growth, verbose>>

kevVars == <<df_columns, df, bad, kev_map>>

snapVars == <<files, idx, snap_date, nread, matched, matched_total, missing_score_date>>

rowVars == <<rows, row_src>>

latVars == <<time_to_thr, cens_thr, time_to_g, cens_g, used_cves>>

\* kev_2025_epss.py, main, run after run on one output file
VARIABLES
    kev_rows,       \* the rows of the KEV CSV, each [cveID, dateAdded]
    out_file,       \* the file at args.out, a sequence of CSV lines
    f_buffer,       \* the lines written to f and not yet flushed to the file
    resume,         \* args.resume of the current run
    year_rows,      \* main: rows, the KEV rows of the year, sorted
    done,           \* main: done
    row_idx,        \* the number of rows of year_rows the loop has dealt with
    processed,      \* main: processed
    skipped,        \* main: skipped
    err_added,      \* main: err_added
    err_current,    \* main: err_current
    runs,           \* history: the number of runs started
    file0,          \* history: the file at args.out when the current run started
    fetches         \* history: per CVE, the fetch_epss_one calls of the current run

keVars == <<kev_rows, out_file, f_buffer, resume, year_rows, done, row_idx, processed,
            skipped, err_added, err_current, runs, file0, fetches>>

dlVars == <<dest, tmp, body, retries, attempt, status, result, dest0, http_calls, replaced, rm_failed>>

\* the variables of the scripts other than kev_weekly_epss_latency.py
otherScriptVars == <<dlVars, keVars>>

\* the variables of kev_weekly_epss_latency.py but pc, stderr and verbose
latencyScriptVars ==
    <<exc, thresholds, growth, kevVars, snapVars, rowVars, out_csv, latVars, figs>>

vars == <<pc, exc, stderr, argVars, kevVars, snapVars, rowVars, out_csv, latVars, figs,
          otherScriptVars>>

-----------------------------------------------------------------------------
(* Files.  A file is [exists, data], data the sequence of chunks it holds. *)

NoFile == [exists |-> FALSE, data |-> <<>>]

FileOf(data) == [exists |-> TRUE, data |-> data]

\* download is not running
DlIdle ==
    /\ dest = NoFile
    /\ tmp = NoFile
    /\ body = <<>>
    /\ retries = 0
    /\ attempt = 0
    /\ status = "none"
    /\ result = "none"
    /\ dest0 = NoFile
    /\ http_calls = 0
    /\ replaced = 0
    /\ rm_failed = FALSE

KeCves == {"CVE-A", "CVE-B"}

\* kev_2025_epss.py is not running
KeIdle ==
    /\ kev_rows = <<>>
    /\ out_file = NoFile
    /\ f_buffer = <<>>
    /\ resume = FALSE
    /\ year_rows = <<>>
    /\ done = {}
    /\ row_idx = 0
    /\ processed = 0
    /\ skipped = 0
    /\ err_added = 0
    /\ err_current = 0
    /\ runs = 0
    /\ file0 = NoFile
    /\ fetches = [c \in KeCves |-> 0]

\* the other scripts are not running
OtherScriptsIdle == DlIdle /\ KeIdle

-----------------------------------------------------------------------------
(* Bounds of the model.                                                    *)

MaxLatRows == 2

MaxDate == 2

-----------------------------------------------------------------------------
(* Floats.                                                                 *)

EmptyDict == <<>>

NoExc == [type |-> "", at |-> ""]

NaN == [nan |-> TRUE, v |-> 0]

Num(x) == [nan |-> FALSE, v |-> x]

\* a >= b on floats: false as soon as one side is nan
Geq(a, b) == ~a.nan /\ ~b.nan /\ a.v >= b.v

\* a * g for a score a and a growth factor g (a plain number)
Mul(a, g) == IF a.nan THEN NaN ELSE Num(a.v * g)

-----------------------------------------------------------------------------
(* PanelRow and the inputs of build_latency_metrics.                       *)

PanelRow(c, d0, d, e, p) ==
    [cve |-> c, kev_dateAdded |-> d0, snapshot_date |-> d, epss |-> e, percentile |-> p]

\* number of times x occurs in the list s
Count(s, x) == Cardinality({i \in 1..Len(s) : s[i] = x})

\* the set of elements of the list s
Range(s) == {s[i] : i \in 1..Len(s)}

-----------------------------------------------------------------------------
(* build_latency_metrics.                                                  *)

\* keys of by_cve in insertion order: the CVEs of rs by first occurrence
RECURSIVE ByCveKeys(_)
ByCveKeys(rs) ==
    IF rs = <<>> THEN <<>>
    ELSE LET init == ByCveKeys(SubSeq(rs, 1, Len(rs) - 1))
             c    == rs[Len(rs)].cve
         IN  IF c \in Range(init) THEN init ELSE Append(init, c)

\* by_cve[cve]: the rows of cve, in input order
ByCve(rs, cve) == SelectSeq(rs, LAMBDA r : r.cve = cve)

\* kev_date[cve]: the kev_dateAdded of the last row of cve
KevDate(rs, cve) ==
    LET s == ByCve(rs, cve) IN s[Len(s)].kev_dateAdded

\* one step of the stable sort: r goes after every row dated <= r
InsertByDate(sorted, r) ==
    LET k == Cardinality({i \in 1..Len(sorted) : sorted[i].snapshot_date <= r.snapshot_date})
    IN  SubSeq(sorted, 1, k) \o <<r>> \o SubSeq(sorted, k + 1, Len(sorted))

\* a series left in input order
SortBySnapshotDate_unsorted(series) == series

\* by_cve[cve].sort(key=lambda x: x.snapshot_date): a stable sort
RECURSIVE SortBySnapshotDate(_)
SortBySnapshotDate(series) ==
    IF series = <<>> THEN <<>>
    ELSE InsertByDate(SortBySnapshotDate(SubSeq(series, 1, Len(series) - 1)),
                      series[Len(series)])

\* a baseline scan without the date test: the first row of the sorted series
BaselineIndex_first(series, d0) == IF series = <<>> THEN 0 ELSE 1

\* index of the first row with snapshot_date >= d0, 0 when there is none
BaselineIndex(series, d0) ==
    LET I == {i \in 1..Len(series) : series[i].snapshot_date >= d0}
    IN  IF I = {} THEN 0 ELSE CHOOSE i \in I : \A j \in I : i <= j

\* the hit scan with a strict comparison of the score
HitIndex_strict(series, d0, target) ==
    LET I == {i \in 1..Len(series) :
                 /\ series[i].snapshot_date >= d0
                 /\ Geq(series[i].epss, target)
                 /\ ~Geq(target, series[i].epss)}
    IN  IF I = {} THEN 0 ELSE CHOOSE i \in I : \A j \in I : i <= j

\* index of the first row with snapshot_date >= d0 and epss >= target, 0 when none
HitIndex(series, d0, target) ==
    LET I == {i \in 1..Len(series) :
                 series[i].snapshot_date >= d0 /\ Geq(series[i].epss, target)}
    IN  IF I = {} THEN 0 ELSE CHOOSE i \in I : \A j \in I : i <= j

\* the record of the five results
Metrics(tt, ct, tg, cg, u) ==
    [time_to_thr |-> tt, cens_thr |-> ct, time_to_g |-> tg, cens_g |-> cg, used_cves |-> u]

\* a hit that is recorded and also counted as censored
RecordThreshold_both(m, series, d0, t) ==
    LET h == HitIndex(series, d0, Num(t))
    IN  IF h = 0 THEN [m EXCEPT !.cens_thr[t] = @ + 1]
        ELSE [m EXCEPT !.cens_thr[t] = @ + 1,
                       !.time_to_thr[t] = Append(@, series[h].snapshot_date - d0)]

\* one iteration of "for t in thresholds"
RecordThreshold(m, series, d0, t) ==
    LET h == HitIndex(series, d0, Num(t))
    IN  IF h = 0 THEN [m EXCEPT !.cens_thr[t] = @ + 1]
        ELSE [m EXCEPT !.time_to_thr[t] = Append(@, series[h].snapshot_date - d0)]

\* one iteration of "for g in growth_factors"
RecordGrowth(m, series, d0, baseline_epss, g) ==
    LET h == HitIndex(series, d0, Mul(baseline_epss, g))
    IN  IF h = 0 THEN [m EXCEPT !.cens_g[g] = @ + 1]
        ELSE [m EXCEPT !.time_to_g[g] = Append(@, series[h].snapshot_date - d0)]

\* "for t in thresholds", in list order
RECURSIVE ThresholdLoop(_, _, _, _)
ThresholdLoop(m, series, d0, ts) ==
    IF ts = <<>> THEN m
    ELSE ThresholdLoop(RecordThreshold(m, series, d0, Head(ts)), series, d0, Tail(ts))

\* "for g in growth_factors", in list order
RECURSIVE GrowthLoop(_, _, _, _, _)
GrowthLoop(m, series, d0, baseline_epss, gs) ==
    IF gs = <<>> THEN m
    ELSE GrowthLoop(RecordGrowth(m, series, d0, baseline_epss, Head(gs)),
                    series, d0, baseline_epss, Tail(gs))

\* an entity without a baseline counted as used and censored everywhere
EntityStep_noskip(m, series, d0, ts, gs) ==
    LET b  == BaselineIndex(series, d0)
        m1 == [m EXCEPT !.used_cves = @ + 1]
        be == IF b = 0 THEN NaN ELSE series[b].epss
    IN  GrowthLoop(ThresholdLoop(m1, series, d0, ts), series, d0, be, gs)

\* the body of "for cve, series in by_cve.items()" for one sorted series
EntityStep(m, series, d0, ts, gs) ==
    LET b == BaselineIndex(series, d0)
    IN  IF b = 0 THEN m
        ELSE LET m1 == [m EXCEPT !.used_cves = @ + 1]
             IN  GrowthLoop(ThresholdLoop(m1, series, d0, ts),
                            series, d0, series[b].epss, gs)

\* "for cve, series in by_cve.items()", in insertion order of the keys
RECURSIVE EntityLoop(_, _, _, _, _)
EntityLoop(m, keys, rs, ts, gs) ==
    IF keys = <<>> THEN m
    ELSE LET cve == Head(keys)
         IN  EntityLoop(EntityStep(m, SortBySnapshotDate(ByCve(rs, cve)),
                                   KevDate(rs, cve), ts, gs),
                        Tail(keys), rs, ts, gs)

\* build_latency_metrics(rows, thresholds, growth_factors)
BuildLatencyMetrics(rs, ts, gs) ==
    EntityLoop(Metrics([t \in Range(ts) |-> <<>>], [t \in Range(ts) |-> 0],
                       [g \in Range(gs) |-> <<>>], [g \in Range(gs) |-> 0], 0),
               ByCveKeys(rs), rs, ts, gs)

-----------------------------------------------------------------------------
(* The inputs build_latency_metrics is explored on: two catalog CVEs, both *)
(* included on day 1, snapshots on days 0..MaxDate, and the scores 0,      *)
(* 0.001, 0.01 and nan; and the scenario of the specification.             *)

LatCves == {"CVE-A", "CVE-B"}

LatKevDate == [c \in LatCves |-> 1]

LatScores == {Num(0), Num(1), Num(10), NaN}

LatRowValues ==
    {PanelRow(c, LatKevDate[c], d, e, Num(500)) : c \in LatCves, d \in 0..MaxDate, e \in LatScores}

LatRowLists == UNION {[1..n -> LatRowValues] : n \in 0..MaxLatRows}

\* --thresholds and --growth: the defaults, and lists that repeat a value
LatParams ==
    { [thresholds |-> <<1, 10, 100>>, growth |-> <<10, 100>>],
      [thresholds |-> <<10, 1, 10>>,  growth |-> <<10, 10>>] }

\* inclusion 2025-01-06 (day 0), series (01-06, 0.001), (01-13, 0.02), (01-20, 0.15)
ScenarioRows ==
    << PanelRow("CVE-X", 0, 0,  Num(1),   Num(500)),
       PanelRow("CVE-X", 0, 7,  Num(20),  Num(500)),
       PanelRow("CVE-X", 0, 14, Num(150), Num(500)) >>

ScenarioParams == [thresholds |-> <<10, 100>>, growth |-> <<10>>]

InitLat ==
    /\ pc = "lat_call"
    /\ \/ /\ rows \in LatRowLists
          /\ \E p \in LatParams : thresholds = p.thresholds /\ growth = p.growth
       \/ /\ rows = ScenarioRows
          /\ thresholds = ScenarioParams.thresholds
          /\ growth = ScenarioParams.growth
    /\ exc = NoExc
    /\ stderr = <<>>
    /\ verbose = 0
    /\ df_columns = {}
    /\ df = <<>>
    /\ bad = 0
    /\ kev_map = EmptyDict
    /\ files = <<>>
    /\ idx = 0
    /\ snap_date = 0
    /\ nread = 0
    /\ matched = 0
    /\ matched_total = 0
    /\ missing_score_date = 0
    /\ row_src = <<>>
    /\ out_csv = <<>>
    /\ time_to_thr = EmptyDict
    /\ cens_thr = EmptyDict
    /\ time_to_g = EmptyDict
    /\ cens_g = EmptyDict
    /\ used_cves = 0
    /\ figs = <<>>
    /\ OtherScriptsIdle

\* the assignment of the five results of build_latency_metrics
AssignMetrics ==
    LET m == BuildLatencyMetrics(rows, thresholds, growth)
    IN  /\ time_to_thr' = m.time_to_thr
        /\ cens_thr' = m.cens_thr
        /\ time_to_g' = m.time_to_g
        /\ cens_g' = m.cens_g
        /\ used_cves' = m.used_cves

\* the call of build_latency_metrics
LatBuild ==
    /\ pc = "lat_call"
    /\ AssignMetrics
    /\ pc' = "lat_done"
    /\ UNCHANGED <<exc, stderr, argVars, kevVars, snapVars, rowVars, out_csv, figs>>
    /\ UNCHANGED otherScriptVars

NextLat == LatBuild

SpecLat == InitLat /\ [][NextLat]_vars

-----------------------------------------------------------------------------
(* What the claims about build_latency_metrics speak of, stated on the     *)
(* input row list itself, without grouping or sorting it.                  *)

\* the entities of the row list
Entities(rs) == {rs[i].cve : i \in 1..Len(rs)}

\* the inclusion date of an entity (every row of it carries the same one)
InclusionDate(rs, c) ==
    LET i == CHOOSE i \in 1..Len(rs) : rs[i].cve = c IN rs[i].kev_dateAdded

\* the rows of c dated on or after its inclusion date
OnOrAfter(rs, c) ==
    {i \in 1..Len(rs) : rs[i].cve = c /\ rs[i].snapshot_date >= InclusionDate(rs, c)}

HasBaseline(rs, c) == OnOrAfter(rs, c) # {}

\* the earliest-dated row on or after inclusion, the first in input order among equals
BaselineOf(rs, c) ==
    LET I == OnOrAfter(rs, c)
        b == CHOOSE i \in I : \A j \in I :
                 \/ rs[i].snapshot_date < rs[j].snapshot_date
                 \/ rs[i].snapshot_date = rs[j].snapshot_date /\ i <= j
    IN  rs[b]

\* the snapshot dates of the rows of c on or after inclusion whose score meets target
QualifyingDates(rs, c, target) ==
    {rs[i].snapshot_date : i \in {j \in OnOrAfter(rs, c) : Geq(rs[j].epss, target)}}

MinOf(S) == CHOOSE x \in S : \A y \in S : x <= y

\* the entities with a baseline whose first qualifying row lies v days after inclusion
CrossedAfter(rs, c, target, v) ==
    /\ QualifyingDates(rs, c, target) # {}
    /\ MinOf(QualifyingDates(rs, c, target)) - InclusionDate(rs, c) = v

ThresholdCrossers(rs, t, v) ==
    {c \in Entities(rs) : CrossedAfter(rs, c, Num(t), v)}

GrowthCrossers(rs, g, v) ==
    {c \in Entities(rs) :
        HasBaseline(rs, c) /\ CrossedAfter(rs, c, Mul(BaselineOf(rs, c).epss, g), v)}

\* the entities whose baseline row has score 0
ZeroBaseline(rs) ==
    {c \in Entities(rs) : HasBaseline(rs, c) /\ BaselineOf(rs, c).epss = Num(0)}

LatDone == pc = "lat_done"

-----------------------------------------------------------------------------
-----------------------------------------------------------------------------
(* C2: first-hit crossing semantics.  For every target (a threshold t, or  *)
(* baseline.score * g) the recorded observations are exactly, per          *)
(* occurrence of the target in the supplied list, one value for each       *)
(* entity that has a row on or after inclusion whose score meets the       *)
(* target, that value being the day count from the inclusion date to the   *)
(* earliest such snapshot date, whatever the order of the input rows; and  *)
(* every recorded value is non-negative.                                   *)
C2_FirstHit ==
    LatDone =>
        /\ \A t \in Range(thresholds) :
               /\ \A i \in 1..Len(time_to_thr[t]) : time_to_thr[t][i] >= 0
               /\ \A v \in Range(time_to_thr[t]) \cup (0..MaxDate) :
                      Count(time_to_thr[t], v) =
                          Count(thresholds, t) * Cardinality(ThresholdCrossers(rows, t, v))
        /\ \A g \in Range(growth) :
               /\ \A i \in 1..Len(time_to_g[g]) : time_to_g[g][i] >= 0
               /\ \A v \in Range(time_to_g[g]) \cup (0..MaxDate) :
                      Count(time_to_g[g], v) =
                          Count(growth, g) * Cardinality(GrowthCrossers(rows, g, v))

\* C2 witness: the scenario of the specification gives 7, 14 and 7 days
C2_Witness ==
    /\ LatDone
    /\ rows = ScenarioRows
    /\ time_to_thr[10] = <<7>>
    /\ time_to_thr[100] = <<14>>
    /\ time_to_g[10] = <<7>>

-----------------------------------------------------------------------------
(* C3 (as amended): an entity whose baseline row has score 0 is never      *)
(* censored for a growth factor; for every growth factor it is recorded    *)
(* at its baseline row, with the day count from the inclusion date to the  *)
(* baseline snapshot date (0 only when the baseline snapshot is dated on   *)
(* the inclusion date).                                                    *)
C3_ZeroBaselineObserved ==
    LatDone =>
        \A g \in Range(growth) :
            /\ cens_g[g] <=
                   Count(growth, g) * (used_cves - Cardinality(ZeroBaseline(rows)))
            /\ \A v \in 0..MaxDate :
                   Count(time_to_g[g], v) >=
                       Count(growth, g) *
                       Cardinality({c \in ZeroBaseline(rows) :
                           BaselineOf(rows, c).snapshot_date - InclusionDate(rows, c) = v})

\* C3 witness: a score-0 baseline dated after the inclusion date, recorded for a growth factor
C3_Witness ==
    /\ LatDone
    /\ growth # <<>>
    /\ \E c \in ZeroBaseline(rows) :
           BaselineOf(rows, c).snapshot_date > InclusionDate(rows, c)
    /\ \A g \in Range(growth) : cens_g[g] = 0 /\ time_to_g[g] # <<>>

\* C3 as stated: every entity with a score-0 baseline is recorded with value 0
\* for every growth factor
C3_Original ==
    LatDone =>
        \A g \in Range(growth) :
            Count(time_to_g[g], 0) >= Count(growth, g) * Cardinality(ZeroBaseline(rows))

-----------------------------------------------------------------------------
(* C4: an entity with rows but none dated on or after its inclusion date   *)
(* is skipped: the five results equal those of the same call with that     *)
(* entity's rows removed, and used_cves counts only entities with a        *)
(* baseline.                                                               *)
C4_SkippedEntity ==
    LatDone =>
        /\ used_cves = Cardinality({c \in Entities(rows) : HasBaseline(rows, c)})
        /\ \A c \in Entities(rows) :
               ~HasBaseline(rows, c) =>
                   Metrics(time_to_thr, cens_thr, time_to_g, cens_g, used_cves) =
                       BuildLatencyMetrics(SelectSeq(rows, LAMBDA r : r.cve # c),
                                           thresholds, growth)

\* C4 witness: one entity without a baseline beside one with a recorded observation
C4_Witness ==
    /\ LatDone
    /\ \E c \in Entities(rows) : ~HasBaseline(rows, c)
    /\ used_cves = 1
    /\ \E t \in Range(thresholds) : time_to_thr[t] # <<>>

-----------------------------------------------------------------------------
(* Text read from files.  A date text is [kind, d]: kind "date" is a       *)
(* YYYY-MM-DD calendar date (day number d), kind "stamp" an ISO timestamp  *)
(* starting with one, kind "nodate" ten characters that are no calendar    *)
(* date (2025-02-30), kind "empty" an empty cell.  A float text is         *)
(* [kind, v]: "num" spells the float v, "empty" is an empty or missing     *)
(* field, "text" spells no float.                                          *)

MaxKevRows == 2

MaxFiles == 2

MaxRecs == 2

Days == 1..MaxDate

DateText(d) == [kind |-> "date", d |-> d]

StampText(d) == [kind |-> "stamp", d |-> d]

NoDateText == [kind |-> "nodate", d |-> 0]

EmptyText == [kind |-> "empty", d |-> 0]

\* parse_iso_date(s): the date of the first ten characters, or ValueError (ok = FALSE)
ParseIsoDate(s) ==
    IF s.kind \in {"date", "stamp"} THEN [ok |-> TRUE, d |-> s.d] ELSE [ok |-> FALSE, d |-> 0]

\* str.strip() on the identifier cells of the model
Strip(c) ==
    CASE c = " CVE-A " -> "CVE-A"
      [] c = "  "      -> ""
      [] OTHER         -> c

\* str(row[...]) of a cell pandas read with dtype=str: an empty cell is NaN, "nan"
PandasStr(c) == IF c = "" THEN "nan" ELSE c

\* the same for a dateAdded cell: str(NaN) is "nan", which is no date
PandasDateStr(s) == IF s.kind = "empty" THEN NoDateText ELSE s

-----------------------------------------------------------------------------
(* read_kev_table.                                                         *)

KevColumnSets == {{"cveID", "dateAdded", "vendorProject"}, {"cveID", "dateAdded"},
                  {"cveID", "vendorProject"}, {"dateAdded", "vendorProject"}}

KevIdCells == {"CVE-A", " CVE-A ", "CVE-B", "", "  "}

KevDateCells == {DateText(d) : d \in Days} \cup {StampText(1), NoDateText, EmptyText}

\* a column test that looks for the identifier column only
HasKevColumns_idonly(columns) == "cveID" \in columns

\* the negation of the test of line 93
HasKevColumns(columns) == "cveID" \in columns /\ "dateAdded" \in columns

\* eprint under "if verbose"
Log(msg) == IF verbose > 0 THEN Append(stderr, msg) ELSE stderr

\* out[cve] = d
DictSet(dict, k, val) == [x \in DOMAIN dict \cup {k} |-> IF x = k THEN val ELSE dict[x]]

\* a loop body that counts every skipped row as bad
KevRowStep_countall(out, b, row) ==
    LET cve == Strip(PandasStr(row.cveID))
        p   == ParseIsoDate(PandasDateStr(row.dateAdded))
    IN  IF cve = "" \/ cve = "nan" THEN [out |-> out, bad |-> b + 1]
        ELSE IF p.ok THEN [out |-> DictSet(out, cve, p.d), bad |-> b]
        ELSE [out |-> out, bad |-> b + 1]

\* the body of "for _, row in df.iterrows()"
KevRowStep(out, b, row) ==
    LET cve == Strip(PandasStr(row.cveID))
        p   == ParseIsoDate(PandasDateStr(row.dateAdded))
    IN  IF cve = "" \/ cve = "nan" THEN [out |-> out, bad |-> b]
        ELSE IF p.ok THEN [out |-> DictSet(out, cve, p.d), bad |-> b]
        ELSE [out |-> out, bad |-> b + 1]

\* pd.read_csv and the column test: RuntimeError when a required column is absent
KevReadCsv ==
    /\ pc = "start"
    /\ \E columns \in KevColumnSets :
          /\ df_columns' = columns
          /\ IF HasKevColumns(columns)
             THEN pc' = "kev_rows" /\ exc' = exc
             ELSE pc' = "raised" /\ exc' = [type |-> "RuntimeError", at |-> "read_kev_table"]
    /\ UNCHANGED <<stderr, argVars, df, bad, kev_map, snapVars, rowVars, out_csv, latVars, figs>>
    /\ UNCHANGED otherScriptVars

\* one iteration of "for _, row in df.iterrows()"
KevRow ==
    /\ pc = "kev_rows"
    /\ Len(df) < MaxKevRows
    /\ \E id \in KevIdCells, da \in KevDateCells :
          LET row == [cveID |-> id, dateAdded |-> da]
              r   == KevRowStep(kev_map, bad, row)
          IN  /\ df' = Append(df, row)
              /\ kev_map' = r.out
              /\ bad' = r.bad
    /\ UNCHANGED <<pc, exc, stderr, argVars, df_columns, snapVars, rowVars, out_csv, latVars, figs>>
    /\ UNCHANGED otherScriptVars

\* the end of the loop: the report under verbose, and the return of out
KevReturn ==
    /\ pc = "kev_rows"
    /\ stderr' = Log([tag |-> "KEV", args |-> <<Cardinality(DOMAIN kev_map), bad>>])
    /\ pc' = "kev_loaded"
    /\ UNCHANGED <<exc, argVars, kevVars, snapVars, rowVars, out_csv, latVars, figs>>
    /\ UNCHANGED otherScriptVars

-----------------------------------------------------------------------------
(* list_snapshot_files.  A file name is [kind, d]: "dated" is              *)
(* epss_scores-<date of day d>.csv, "nodate" is epss_scores-2025-13-45.csv *)
(* (the pattern matches, the ten characters are no date), "undated" is     *)
(* epss_scores-current.csv.gz and "other" is a name list_snapshot_files    *)
(* does not take for a snapshot.                                           *)

FileNames ==
    {[kind |-> "dated", d |-> d] : d \in Days} \cup
    {[kind |-> "nodate", d |-> 0], [kind |-> "undated", d |-> 0], [kind |-> "other", d |-> 0]}

\* os.listdir(folder): the names of the folder, each once, in any order
Listings ==
    UNION {{l \in [1..n -> FileNames] : \A i, j \in 1..n : l[i] = l[j] => i = j}
              : n \in 0..MaxFiles}

\* fn.startswith("epss_scores-") and (fn.endswith(".csv") or fn.endswith(".csv.gz"))
IsSnapshotName(fn) == fn.kind # "other"

\* whether epss_scores-(\d{4}-\d{2}-\d{2})\.csv is found in the name
HasNameStamp(fn) == fn.kind \in {"dated", "nodate"}

\* the ten characters the pattern captures
NameStamp(fn) == IF fn.kind = "dated" THEN DateText(fn.d) ELSE NoDateText

\* key(p), as a rank of the strings compared: the stamps in date order (2025-13-45
\* after every date of the year), then the names without a stamp ("e" > "2")
SortKey(fn) ==
    CASE fn.kind = "dated"  -> fn.d
      [] fn.kind = "nodate" -> MaxDate + 1
      [] OTHER              -> MaxDate + 2

\* one step of the stable sort by key
InsertByKey(sorted, fn) ==
    LET k == Cardinality({i \in 1..Len(sorted) : SortKey(sorted[i]) <= SortKey(fn)})
    IN  SubSeq(sorted, 1, k) \o <<fn>> \o SubSeq(sorted, k + 1, Len(sorted))

RECURSIVE SortByKey(_)
SortByKey(l) ==
    IF l = <<>> THEN <<>>
    ELSE InsertByKey(SortByKey(SubSeq(l, 1, Len(l) - 1)), l[Len(l)])

\* the snapshot names in the order os.listdir gave them
ListSnapshotFiles_unsorted(listing) == SelectSeq(listing, IsSnapshotName)

\* list_snapshot_files(folder)
ListSnapshotFiles(listing) == SortByKey(SelectSeq(listing, IsSnapshotName))

-----------------------------------------------------------------------------
(* parse_snapshot_date_from_header.  A first line is [marker, stamp]:      *)
(* marker says whether score_date:(\d{4}-\d{2}-\d{2})T is found in it,     *)
(* stamp is the ten characters captured.                                   *)

FirstLines ==
    {[marker |-> TRUE, stamp |-> DateText(d)] : d \in Days} \cup
    {[marker |-> TRUE, stamp |-> NoDateText], [marker |-> FALSE, stamp |-> EmptyText]}

\* res is "date" (with d), "none" (return None) or "raise" (ValueError of parse_iso_date)
ParseSnapshotDateFromHeader(first_line, fallback_from_name) ==
    LET stamp == IF first_line.marker THEN first_line.stamp
                 ELSE NameStamp(fallback_from_name)
        p     == ParseIsoDate(stamp)
    IN  IF first_line.marker \/ HasNameStamp(fallback_from_name)
        THEN IF p.ok THEN [res |-> "date", d |-> p.d] ELSE [res |-> "raise", d |-> 0]
        ELSE [res |-> "none", d |-> 0]

-----------------------------------------------------------------------------
(* extract_weekly_panel.  A record read by the DictReader is               *)
(* [cve, epss, percentile], the last two float texts.                      *)

SnapCveCells == {"CVE-A", " CVE-A ", "CVE-B", "CVE-X"}

FloatTexts(v) == {[kind |-> "num", v |-> v], [kind |-> "empty", v |-> 0], [kind |-> "text", v |-> 0]}

\* every record over the cells of the model
AllRecords == [cve : SnapCveCells, epss : FloatTexts(10), percentile : FloatTexts(500)]

\* the records the snapshot files of the model hold: those of AllRecords whose
\* percentile field is not empty
SnapRecords == {r \in AllRecords : r.percentile.kind # "empty"}

\* a conversion that turns every field that spells no float into nan
FloatOrNan_total(t) ==
    IF t.kind = "num" THEN [ok |-> TRUE, val |-> Num(t.v)] ELSE [ok |-> TRUE, val |-> NaN]

\* float(field or "nan"): an empty or missing field is float("nan"); ok = FALSE is ValueError
FloatOrNan(t) ==
    CASE t.kind = "num"   -> [ok |-> TRUE, val |-> Num(t.v)]
      [] t.kind = "empty" -> [ok |-> TRUE, val |-> NaN]
      [] OTHER            -> [ok |-> FALSE, val |-> NaN]

\* a join that keeps every record, with the snapshot date for the unknown entities
JoinedRows_nofilter(kmap, sd, r) ==
    LET cve  == Strip(r.cve)
        epss == FloatOrNan(r.epss)
        pct  == FloatOrNan(r.percentile)
    IN  IF epss.ok /\ pct.ok
        THEN <<PanelRow(cve, IF cve \in DOMAIN kmap THEN kmap[cve] ELSE sd, sd,
                        epss.val, pct.val)>>
        ELSE <<>>

\* the body of "for r in reader": the rows it appends, none or one
JoinedRows(kmap, sd, r) ==
    LET cve  == Strip(r.cve)
        epss == FloatOrNan(r.epss)
        pct  == FloatOrNan(r.percentile)
    IN  IF cve \in DOMAIN kmap /\ epss.ok /\ pct.ok
        THEN <<PanelRow(cve, kmap[cve], sd, epss.val, pct.val)>>
        ELSE <<>>

\* main's call of extract_weekly_panel up to the loop: the file list and its report
SnapList ==
    /\ pc = "kev_loaded"
    /\ \E listing \in Listings :
          /\ files' = ListSnapshotFiles(listing)
          /\ stderr' = Log([tag |-> "SNAP found", args |-> <<Len(ListSnapshotFiles(listing))>>])
    /\ df_columns' = {}
    /\ df' = <<>>
    /\ bad' = 0
    /\ pc' = "files"
    /\ UNCHANGED <<exc, argVars, kev_map, idx, snap_date, nread, matched, matched_total,
                   missing_score_date, rowVars, out_csv, latVars, figs>>
    /\ UNCHANGED otherScriptVars

\* the head of one iteration of "for idx, path in enumerate(files, 1)": the file is
\* opened, its first line read and its date determined
SnapOpen ==
    /\ pc = "files"
    /\ idx < Len(files)
    /\ idx' = idx + 1
    /\ \E first \in FirstLines :
          LET sd == ParseSnapshotDateFromHeader(first, files[idx + 1])
          IN  CASE sd.res = "raise" ->
                     /\ pc' = "raised"
                     /\ exc' = [type |-> "ValueError", at |-> "parse_snapshot_date_from_header"]
                     /\ UNCHANGED <<stderr, snap_date, nread, matched, missing_score_date>>
                [] sd.res = "none" ->
                     /\ missing_score_date' = missing_score_date + 1
                     /\ stderr' = Log([tag |-> "WARN", args |-> <<idx + 1>>])
                     /\ UNCHANGED <<pc, exc, snap_date, nread, matched>>
                [] OTHER ->
                     /\ snap_date' = sd.d
                     /\ nread' = 0
                     /\ matched' = 0
                     /\ pc' = "records"
                     /\ UNCHANGED <<exc, stderr, missing_score_date>>
    /\ UNCHANGED <<argVars, kevVars, files, matched_total, rowVars, out_csv, latVars, figs>>
    /\ UNCHANGED otherScriptVars

\* one iteration of "for r in reader"
SnapRecord ==
    /\ pc = "records"
    /\ nread < MaxRecs
    /\ nread' = nread + 1
    /\ \E r \in SnapRecords :
          LET new == JoinedRows(kev_map, snap_date, r)
          IN  /\ rows' = rows \o new
              /\ row_src' = row_src \o [i \in 1..Len(new) |-> <<idx, nread + 1>>]
              /\ matched' = matched + Len(new)
    /\ UNCHANGED <<pc, exc, stderr, argVars, kevVars, files, idx, snap_date, matched_total,
                   missing_score_date, out_csv, latVars, figs>>
    /\ UNCHANGED otherScriptVars

\* the reader is exhausted: the tail of the iteration
SnapEndOfFile ==
    /\ pc = "records"
    /\ matched_total' = matched_total + matched
    /\ stderr' = Log([tag |-> "SNAP file", args |-> <<idx, snap_date, matched>>])
    /\ pc' = "files"
    /\ UNCHANGED <<exc, argVars, kevVars, files, idx, snap_date, nread, matched,
                   missing_score_date, rowVars, out_csv, latVars, figs>>
    /\ UNCHANGED otherScriptVars

\* the end of the loop over the files: the report and the return of rows
SnapReturn ==
    /\ pc = "files"
    /\ idx = Len(files)
    /\ stderr' = Log([tag |-> "SNAP total", args |-> <<matched_total, missing_score_date>>])
    /\ pc' = "extracted"
    /\ UNCHANGED <<exc, argVars, kevVars, snapVars, rowVars, out_csv, latVars, figs>>
    /\ UNCHANGED otherScriptVars

-----------------------------------------------------------------------------
(* write_panel_csv, ecdf_xy and the two plots.                             *)

\* f"{x:.10f}": the digits of x, or the word nan
FormatFloat(x) == IF x.nan THEN [kind |-> "nan", v |-> 0] ELSE [kind |-> "num", v |-> x.v]

CsvHeader == <<"cve", "kev_dateAdded", "snapshot_date", "epss", "percentile">>

CsvLine(r) ==
    <<r.cve, DateText(r.kev_dateAdded), DateText(r.snapshot_date),
      FormatFloat(r.epss), FormatFloat(r.percentile)>>

\* the lines write_panel_csv writes
PanelCsv(rs) == <<CsvHeader>> \o [i \in 1..Len(rs) |-> CsvLine(rs[i])]

\* one step of sorted(): x goes after every value <= x
InsertInt(sorted, x) ==
    LET k == Cardinality({i \in 1..Len(sorted) : sorted[i] <= x})
    IN  SubSeq(sorted, 1, k) \o <<x>> \o SubSeq(sorted, k + 1, Len(sorted))

RECURSIVE SortInts(_)
SortInts(values) ==
    IF values = <<>> THEN <<>>
    ELSE InsertInt(SortInts(SubSeq(values, 1, Len(values) - 1)), values[Len(values)])

\* the textbook distribution function: the rank of a value is the share of the values
\* not above it, so that equal values share one rank
EcdfXY_distinct(values) ==
    LET xs == SortInts(values)
        n  == Len(xs)
    IN  [xs |-> xs,
         ys |-> [i \in 1..n |-> <<Cardinality({j \in 1..n : xs[j] <= xs[i]}), n>>]]

\* ecdf_xy(values): xs sorted, ys[i] the fraction (i + 1) / n as <<numerator, denominator>>
EcdfXY(values) ==
    LET xs == SortInts(values)
        n  == Len(xs)
    IN  [xs |-> xs, ys |-> [i \in 1..n |-> <<i, n>>]]

\* the keys of a dict in ascending order
RECURSIVE SortedKeys(_)
SortedKeys(K) ==
    IF K = {} THEN <<>>
    ELSE LET k == CHOOSE x \in K : \A y \in K : x <= y
         IN  <<k>> \o SortedKeys(K \ {k})

\* the curves of one figure: one per key with a non-empty list, in key order
RECURSIVE Curves(_, _)
Curves(dict, keys) ==
    IF keys = <<>> THEN <<>>
    ELSE LET k    == Head(keys)
             rest == Curves(dict, Tail(keys))
         IN  IF dict[k] = <<>> THEN rest
             ELSE <<[label |-> k, xy |-> EcdfXY(dict[k])]>> \o rest

\* plot_time_to_threshold_ecdf and plot_catchup_latency_ecdf: the figure saved
Figure(name, dict) == [name |-> name, curves |-> Curves(dict, SortedKeys(DOMAIN dict))]

-----------------------------------------------------------------------------
(* main.                                                                   *)

DefaultThresholds == <<1, 10, 100>>

DefaultGrowth == <<10, 100>>

Init ==
    /\ pc = "start"
    /\ exc = NoExc
    /\ stderr = <<>>
    /\ thresholds = DefaultThresholds
    /\ growth = DefaultGrowth
    /\ verbose \in {0, 1}
    /\ df_columns = {}
    /\ df = <<>>
    /\ bad = 0
    /\ kev_map = EmptyDict
    /\ files = <<>>
    /\ idx = 0
    /\ snap_date = 0
    /\ nread = 0
    /\ matched = 0
    /\ matched_total = 0
    /\ missing_score_date = 0
    /\ rows = <<>>
    /\ row_src = <<>>
    /\ out_csv = <<>>
    /\ time_to_thr = EmptyDict
    /\ cens_thr = EmptyDict
    /\ time_to_g = EmptyDict
    /\ cens_g = EmptyDict
    /\ used_cves = 0
    /\ figs = <<>>
    /\ OtherScriptsIdle

\* extract_weekly_panel has returned: its locals are gone
SnapLocalsGone ==
    /\ files' = <<>>
    /\ idx' = 0
    /\ snap_date' = 0
    /\ nread' = 0
    /\ matched' = 0
    /\ matched_total' = 0
    /\ missing_score_date' = 0
    /\ row_src' = <<>>

\* "if not rows": the message and return 2
MainNoRows ==
    /\ pc = "extracted"
    /\ rows = <<>>
    /\ stderr' = Append(stderr, [tag |-> "No rows extracted", args |-> <<>>])
    /\ pc' = "exit2"
    /\ SnapLocalsGone
    /\ UNCHANGED <<exc, argVars, kevVars, rows, out_csv, latVars, figs>>
    /\ UNCHANGED otherScriptVars

\* a main without the test of line 325: the panel CSV is written whatever rows holds
MainWriteCsv_always ==
    /\ pc = "extracted"
    /\ out_csv' = PanelCsv(rows)
    /\ stderr' = Log([tag |-> "OUT", args |-> <<Len(rows)>>])
    /\ pc' = "csv_written"
    /\ SnapLocalsGone
    /\ UNCHANGED <<exc, argVars, kevVars, rows, latVars, figs>>
    /\ UNCHANGED otherScriptVars

\* write_panel_csv(rows, args.out_csv) and its report
MainWriteCsv ==
    /\ pc = "extracted"
    /\ rows # <<>>
    /\ out_csv' = PanelCsv(rows)
    /\ stderr' = Log([tag |-> "OUT", args |-> <<Len(rows)>>])
    /\ pc' = "csv_written"
    /\ SnapLocalsGone
    /\ UNCHANGED <<exc, argVars, kevVars, rows, latVars, figs>>
    /\ UNCHANGED otherScriptVars

\* the call of build_latency_metrics
MainBuildMetrics ==
    /\ pc = "csv_written"
    /\ AssignMetrics
    /\ pc' = "metrics"
    /\ UNCHANGED <<exc, stderr, argVars, kevVars, snapVars, rowVars, out_csv, figs>>
    /\ UNCHANGED otherScriptVars

MainPlotThreshold ==
    /\ pc = "metrics"
    /\ figs' = Append(figs, Figure("fig5a_time_to_threshold_ecdf.png", time_to_thr))
    /\ pc' = "fig5a"
    /\ UNCHANGED <<exc, stderr, argVars, kevVars, snapVars, rowVars, out_csv, latVars>>
    /\ UNCHANGED otherScriptVars

MainPlotGrowth ==
    /\ pc = "fig5a"
    /\ figs' = Append(figs, Figure("fig5b_catchup_latency_ecdf.png", time_to_g))
    /\ pc' = "fig5b"
    /\ UNCHANGED <<exc, stderr, argVars, kevVars, snapVars, rowVars, out_csv, latVars>>
    /\ UNCHANGED otherScriptVars

\* the summary on stderr (printed whatever args.verbose is) and return 0
MainSummary ==
    /\ pc = "fig5b"
    /\ stderr' = Append(stderr,
           [tag |-> "summary",
            args |-> <<used_cves,
                       [t \in DOMAIN time_to_thr |-> <<Len(time_to_thr[t]), cens_thr[t]>>],
                       [g \in DOMAIN time_to_g |-> <<Len(time_to_g[g]), cens_g[g]>>]>>])
    /\ pc' = "exit0"
    /\ UNCHANGED <<exc, argVars, kevVars, snapVars, rowVars, out_csv, latVars, figs>>
    /\ UNCHANGED otherScriptVars

Next ==
    \/ KevReadCsv
    \/ KevRow
    \/ KevReturn
    \/ SnapList
    \/ SnapOpen
    \/ SnapRecord
    \/ SnapEndOfFile
    \/ SnapReturn
    \/ MainNoRows
    \/ MainWriteCsv
    \/ MainBuildMetrics
    \/ MainPlotThreshold
    \/ MainPlotGrowth
    \/ MainSummary

Spec == Init /\ [][Next]_vars

\* read_kev_table alone: main up to the return of the catalog map
NextKev ==
    \/ KevReadCsv
    \/ KevRow
    \/ KevReturn

SpecKev == Init /\ [][NextKev]_vars

-----------------------------------------------------------------------------
(* C5: join filtering.  Every PanelRow of rows has a cve that is a key of  *)
(* the catalog map and carries the catalog's date of that cve; and         *)
(* whatever record of an entity outside the catalog is read next, no row   *)
(* is appended for it (the loop body has no way to raise).                 *)
C5_JoinFiltering ==
    /\ \A i \in 1..Len(rows) :
           /\ rows[i].cve \in DOMAIN kev_map
           /\ rows[i].kev_dateAdded = kev_map[rows[i].cve]
    /\ pc = "records" =>
           \A r \in AllRecords :
               Strip(r.cve) \notin DOMAIN kev_map => JoinedRows(kev_map, snap_date, r) = <<>>

\* C5 witness: a catalog of two entities with different dates, a row of each, and
\* a record of the file being read that produced no row
C5_Witness ==
    /\ pc = "records"
    /\ nread = 2
    /\ matched = 1
    /\ DOMAIN kev_map = {"CVE-A", "CVE-B"}
    /\ kev_map["CVE-A"] # kev_map["CVE-B"]
    /\ \E i, j \in 1..Len(rows) : rows[i].cve = "CVE-A" /\ rows[j].cve = "CVE-B"

-----------------------------------------------------------------------------
(* C6 (as amended): a record of a catalog entity whose score or            *)
(* percentile field is non-empty text that float() cannot parse is dropped *)
(* and the loop goes on; an empty or missing field is not dropped: it is   *)
(* read as float("nan") and the row is materialized with nan in that       *)
(* place.  So every materialized PanelRow carries floats, which may be     *)
(* nan.                                                                    *)
C6_MalformedDropped ==
    /\ pc = "records" =>
           \A r \in AllRecords :
               Strip(r.cve) \in DOMAIN kev_map =>
                   JoinedRows(kev_map, snap_date, r) =
                       IF r.epss.kind = "text" \/ r.percentile.kind = "text" THEN <<>>
                       ELSE <<PanelRow(Strip(r.cve), kev_map[Strip(r.cve)], snap_date,
                                 IF r.epss.kind = "empty" THEN NaN ELSE Num(r.epss.v),
                                 IF r.percentile.kind = "empty" THEN NaN
                                 ELSE Num(r.percentile.v))>>
    /\ pc = "raised" => exc.at # "extract_weekly_panel"

\* C6 witness: in one file, a record was dropped and a row with a nan score was kept
C6_Witness ==
    /\ pc = "records"
    /\ nread = 2
    /\ matched = 1
    /\ rows[Len(rows)].epss = NaN
    /\ "CVE-X" \notin DOMAIN kev_map

\* C6 as stated: every materialized PanelRow carries a numeric score and a numeric
\* percentile
C6_Original ==
    \A i \in 1..Len(rows) : ~rows[i].epss.nan /\ ~rows[i].percentile.nan

-----------------------------------------------------------------------------
(* C7 (as amended): the files are processed in ascending order of the sort *)
(* key of list_snapshot_files, which is the date stamp in the file NAME    *)
(* (names without one last), not the snapshot date read from the header;   *)
(* the rows appear in that file order and, within a file, in input row     *)
(* order, and write_panel_csv writes them in the same order.               *)
(* snapshot_date is non-decreasing only along rows whose snapshot date is  *)
(* the date of their file's name.                                          *)
C7_FileOrder ==
    /\ \A i, j \in 1..Len(files) : i < j => SortKey(files[i]) <= SortKey(files[j])
    /\ pc \in {"files", "records", "extracted"} =>
           /\ Len(row_src) = Len(rows)
           /\ \A i, j \in 1..Len(rows) :
                  i < j =>
                      /\ \/ row_src[i][1] < row_src[j][1]
                         \/ row_src[i][1] = row_src[j][1] /\ row_src[i][2] < row_src[j][2]
                      /\ ( /\ files[row_src[i][1]] = [kind |-> "dated", d |-> rows[i].snapshot_date]
                           /\ files[row_src[j][1]] = [kind |-> "dated", d |-> rows[j].snapshot_date] )
                         => rows[i].snapshot_date <= rows[j].snapshot_date
    /\ Len(out_csv) > 0 =>
           /\ Len(out_csv) = Len(rows) + 1
           /\ \A i \in 1..Len(rows) : out_csv[i + 1] = CsvLine(rows[i])

\* C7 witness: rows of two files, two of them from one file, with a later snapshot
\* date before an earlier one
C7_Witness ==
    /\ pc = "extracted"
    /\ Len(rows) >= 3
    /\ row_src[1][1] # row_src[Len(rows)][1]
    /\ row_src[1][1] = row_src[2][1]
    /\ rows[1].snapshot_date > rows[Len(rows)].snapshot_date

\* C7 as stated: snapshot_date is non-decreasing along the output row list
C7_Original ==
    \A i, j \in 1..Len(rows) : i < j => rows[i].snapshot_date <= rows[j].snapshot_date

-----------------------------------------------------------------------------
(* C8 as stated: a snapshot file from which neither the first line nor the *)
(* file name yields a date is skipped and the run goes on; the run is      *)
(* never aborted while the date of a snapshot file is determined.          *)
C8_NeverAborted ==
    /\ pc = "raised" => exc.at # "parse_snapshot_date_from_header"
    /\ pc = "files" /\ idx < Len(files) =>
           \A first \in FirstLines :
               ( /\ ~(first.marker /\ first.stamp.kind \in {"date", "stamp"})
                 /\ files[idx + 1].kind # "dated" )
               => ParseSnapshotDateFromHeader(first, files[idx + 1]).res = "none"

-----------------------------------------------------------------------------
(* C9 (as amended): read_kev_table never aborts on a row.  A row with an   *)
(* empty identifier is skipped without being counted; a row with an        *)
(* identifier and an empty or unparseable inclusion date is skipped and    *)
(* counted in bad.  On return bad is the number of rows of the second      *)
(* kind only, the map holds for each identifier the date of its last row   *)
(* with a parseable date, and the count is reported (with the size of the  *)
(* map) only when verbose is set.                                          *)
EmptyIdCell(row) == row.cveID \in {"", "  "}

DateCellOk(row) == row.dateAdded.kind \in {"date", "stamp"}

IdOf(row) == IF row.cveID = " CVE-A " THEN "CVE-A" ELSE row.cveID

C9_KevLoad ==
    pc = "kev_loaded" =>
        LET good == {i \in 1..Len(df) : ~EmptyIdCell(df[i]) /\ DateCellOk(df[i])}
        IN  /\ exc = NoExc
            /\ bad = Cardinality({i \in 1..Len(df) : ~EmptyIdCell(df[i]) /\ ~DateCellOk(df[i])})
            /\ DOMAIN kev_map = {IdOf(df[i]) : i \in good}
            /\ \A i \in good :
                   (\A j \in good : IdOf(df[j]) = IdOf(df[i]) => j <= i)
                       => kev_map[IdOf(df[i])] = df[i].dateAdded.d
            /\ stderr = IF verbose > 0
                        THEN <<[tag |-> "KEV", args |-> <<Cardinality(DOMAIN kev_map), bad>>]>>
                        ELSE <<>>

\* C9 witness: a row without identifier and a row with an unparseable date, both skipped,
\* one counted
C9_Witness ==
    /\ pc = "kev_loaded"
    /\ Len(df) = 2
    /\ EmptyIdCell(df[1])
    /\ ~EmptyIdCell(df[2]) /\ ~DateCellOk(df[2])
    /\ bad = 1
    /\ DOMAIN kev_map = {}

\* C9 as stated: the malformed count equals the number of skipped rows, those with an
\* empty identifier or an empty or unparseable date
C9_Original ==
    pc = "kev_loaded" =>
        bad = Cardinality({i \in 1..Len(df) : EmptyIdCell(df[i]) \/ ~DateCellOk(df[i])})

-----------------------------------------------------------------------------
(* C10: when the catalog table lacks the identifier column or the          *)
(* inclusion-date column the run is aborted by the RuntimeError of         *)
(* read_kev_table: no snapshot file was listed or opened, no row, panel    *)
(* CSV, figure or message exists, and the run takes no further step.       *)
C10_MissingColumnsAbort ==
    (pc # "start" /\ df_columns # {} /\ ~({"cveID", "dateAdded"} \subseteq df_columns)) =>
        /\ pc = "raised"
        /\ exc = [type |-> "RuntimeError", at |-> "read_kev_table"]
        /\ kev_map = EmptyDict
        /\ files = <<>>
        /\ idx = 0
        /\ rows = <<>>
        /\ out_csv = <<>>
        /\ figs = <<>>
        /\ stderr = <<>>
        /\ ~ENABLED Next

\* C10 witness: the run aborted on a table without the inclusion-date column
C10_Witness ==
    /\ pc = "raised"
    /\ exc.type = "RuntimeError"
    /\ "cveID" \in df_columns
    /\ "dateAdded" \notin df_columns

-----------------------------------------------------------------------------
(* C11: empty-result abort.  When extract_weekly_panel returns no row,     *)
(* the only step of main is the message "No rows extracted" and return 2:  *)
(* no panel CSV is written, no metric computed, no figure rendered and no  *)
(* summary printed.  Conversely the CSV, the metrics, the figures and the  *)
(* summary exist only in runs with at least one panel row.                 *)
NoRowsMessage == [tag |-> "No rows extracted", args |-> <<>>]

MetricsUntouched ==
    /\ time_to_thr = EmptyDict
    /\ cens_thr = EmptyDict
    /\ time_to_g = EmptyDict
    /\ cens_g = EmptyDict
    /\ used_cves = 0

HasSummary == \E i \in 1..Len(stderr) : stderr[i].tag = "summary"

C11_EmptyResultAbort ==
    /\ (pc = "extracted" /\ rows = <<>>) =>
           /\ ENABLED MainNoRows
           /\ ~ENABLED MainWriteCsv
    /\ pc = "exit2" =>
           /\ rows = <<>>
           /\ exc = NoExc
           /\ stderr # <<>>
           /\ stderr[Len(stderr)] = NoRowsMessage
           /\ out_csv = <<>>
           /\ MetricsUntouched
           /\ figs = <<>>
           /\ ~HasSummary
           /\ ~ENABLED Next
    /\ (out_csv # <<>> \/ ~MetricsUntouched \/ figs # <<>> \/ HasSummary) =>
           /\ rows # <<>>
           /\ pc \in {"csv_written", "metrics", "fig5a", "fig5b", "exit0"}
           /\ \A i \in 1..Len(stderr) : stderr[i] # NoRowsMessage
    /\ pc = "exit0" =>
           /\ out_csv = PanelCsv(rows)
           /\ Len(figs) = 2

\* C11 witness: a verbose run with a catalog entity that read a snapshot file, matched
\* no row in it and returned 2
C11_Witness ==
    /\ pc = "exit2"
    /\ DOMAIN kev_map # {}
    /\ \E i \in 1..Len(stderr) : stderr[i].tag = "SNAP file" /\ stderr[i].args[3] = 0
    /\ stderr[Len(stderr)] = NoRowsMessage

-----------------------------------------------------------------------------
(* plot_time_to_threshold_ecdf alone, on dicts of day lists: two keys,     *)
(* each with a list of at most MaxEcdfLen day counts in 0..MaxEcdfDays,    *)
(* and the list [1, 2, 2, 5] of the specification.                         *)

MaxEcdfLen == 3

MaxEcdfDays == 2

EcdfKeys == {1, 10}

EcdfLists == UNION {[1..n -> 0..MaxEcdfDays] : n \in 0..MaxEcdfLen}

EcdfScenario == <<1, 2, 2, 5>>

InitEcdf ==
    /\ pc = "plot_call"
    /\ \/ time_to_thr \in [EcdfKeys -> EcdfLists]
       \/ time_to_thr \in [EcdfKeys -> {EcdfScenario, <<>>}]
    /\ exc = NoExc
    /\ stderr = <<>>
    /\ thresholds = DefaultThresholds
    /\ growth = DefaultGrowth
    /\ verbose = 0
    /\ df_columns = {}
    /\ df = <<>>
    /\ bad = 0
    /\ kev_map = EmptyDict
    /\ files = <<>>
    /\ idx = 0
    /\ snap_date = 0
    /\ nread = 0
    /\ matched = 0
    /\ matched_total = 0
    /\ missing_score_date = 0
    /\ rows = <<>>
    /\ row_src = <<>>
    /\ out_csv = <<>>
    /\ cens_thr = EmptyDict
    /\ time_to_g = EmptyDict
    /\ cens_g = EmptyDict
    /\ used_cves = 0
    /\ figs = <<>>
    /\ OtherScriptsIdle

\* the call plot_time_to_threshold_ecdf(time_to_thr, fig5a)
EcdfPlot ==
    /\ pc = "plot_call"
    /\ figs' = Append(figs, Figure("fig5a_time_to_threshold_ecdf.png", time_to_thr))
    /\ pc' = "plot_done"
    /\ UNCHANGED <<exc, stderr, argVars, kevVars, snapVars, rowVars, out_csv, latVars>>
    /\ UNCHANGED otherScriptVars

NextEcdf == EcdfPlot

SpecEcdf == InitEcdf /\ [][NextEcdf]_vars

-----------------------------------------------------------------------------
(* C12: ECDF shape.  The figure holds one curve for each key with a        *)
(* non-empty list, in ascending key order, and none for an empty list.     *)
(* The curve of a list of n values has the n values in ascending order     *)
(* (each value as often as in the list) and the ranks 1/n, 2/n, ..., n/n:  *)
(* the i-th rank is i/n whatever values are equal, the first is 1/n, the   *)
(* last is n/n = 1.  [1, 2, 2, 5] gives (1, 1/4), (2, 2/4), (2, 3/4),      *)
(* (5, 4/4).  ecdf_xy of the empty list is the empty pair of lists.        *)
PlotDone == pc = "plot_done" /\ Len(figs) = 1

NonEmptyKeys == {k \in DOMAIN time_to_thr : time_to_thr[k] # <<>>}

C12_EcdfShape ==
    PlotDone =>
        LET curves == figs[1].curves
        IN  /\ Len(curves) = Cardinality(NonEmptyKeys)
            /\ {curves[c].label : c \in 1..Len(curves)} = NonEmptyKeys
            /\ \A c, e \in 1..Len(curves) : c < e => curves[c].label < curves[e].label
            /\ \A c \in 1..Len(curves) :
                   LET values == time_to_thr[curves[c].label]
                       n      == Len(values)
                       xs     == curves[c].xy.xs
                       ys     == curves[c].xy.ys
                   IN  /\ Len(xs) = n /\ Len(ys) = n
                       /\ \A i \in 1..(n - 1) : xs[i] <= xs[i + 1]
                       /\ \A x \in Range(values) \cup Range(xs) : Count(xs, x) = Count(values, x)
                       /\ \A i \in 1..n : ys[i] = <<i, n>>
                       /\ ys[1] = <<1, n>>
                       /\ ys[n][1] = ys[n][2]
                       /\ \A i \in 1..(n - 1) :
                              ys[i + 1][2] = ys[i][2] /\ ys[i + 1][1] - ys[i][1] = 1
                       /\ values = EcdfScenario =>
                              /\ xs = <<1, 2, 2, 5>>
                              /\ ys = << <<1, 4>>, <<2, 4>>, <<3, 4>>, <<4, 4>> >>
            /\ EcdfXY(<<>>) = [xs |-> <<>>, ys |-> <<>>]

\* C12 witness: a figure with one curve, of an unsorted list of three values two of which
\* are equal, and no curve for the other key, whose list is empty
C12_Witness ==
    /\ PlotDone
    /\ time_to_thr[1] = <<2, 0, 2>>
    /\ time_to_thr[10] = <<>>
    /\ Len(figs[1].curves) = 1
    /\ figs[1].curves[1].xy.xs = <<0, 2, 2>>

-----------------------------------------------------------------------------
(* C13: baseline monotonicity.  build_latency_metrics selects a baseline   *)
(* row for an entity exactly when the entity has a row on or after its     *)
(* inclusion date; the row selected is dated on or after the inclusion     *)
(* date and no row of the entity, wherever it stands in the input, is      *)
(* dated on or after inclusion and before it; and the growth results are   *)
(* those of the target baseline score * g: for each growth factor the      *)
(* observed entities are those with a row on or after inclusion whose      *)
(* score reaches that target, the censored ones the other entities with a  *)
(* baseline (each counted once per occurrence of g in the supplied list).  *)
SelectedSeries(c) == SortBySnapshotDate(ByCve(rows, c))

SelectedIndex(c) == BaselineIndex(SelectedSeries(c), KevDate(rows, c))

Selected(c) == SelectedSeries(c)[SelectedIndex(c)]

ReachesTarget(c, g) ==
    \E i \in 1..Len(rows) :
        /\ rows[i].cve = c
        /\ rows[i].snapshot_date >= rows[i].kev_dateAdded
        /\ Geq(rows[i].epss, Mul(Selected(c).epss, g))

C13_BaselineEarliest ==
    LatDone =>
        /\ \A c \in Entities(rows) :
               /\ SelectedIndex(c) # 0 <=> HasBaseline(rows, c)
               /\ SelectedIndex(c) # 0 =>
                      /\ Selected(c).cve = c
                      /\ Selected(c).snapshot_date >= InclusionDate(rows, c)
                      /\ \A i \in 1..Len(rows) :
                             ~ ( /\ rows[i].cve = c
                                 /\ rows[i].snapshot_date >= InclusionDate(rows, c)
                                 /\ rows[i].snapshot_date < Selected(c).snapshot_date )
        /\ \A g \in Range(growth) :
               LET with == {c \in Entities(rows) : SelectedIndex(c) # 0}
                   obs  == {c \in with : ReachesTarget(c, g)}
               IN  /\ Len(time_to_g[g]) = Count(growth, g) * Cardinality(obs)
                   /\ cens_g[g] = Count(growth, g) * Cardinality(with \ obs)

\* C13 witness: an entity whose later row comes first in the input; the baseline is the
\* second row (score 0.001) and the first row reaches ten times its score a day later
C13_Witness ==
    /\ LatDone
    /\ Len(rows) = 2
    /\ rows[1].cve = rows[2].cve
    /\ rows[1].snapshot_date = 2 /\ rows[1].epss = Num(10)
    /\ rows[2].snapshot_date = 1 /\ rows[2].epss = Num(1)
    /\ Selected(rows[1].cve) = rows[2]
    /\ growth = <<10, 100>>
    /\ time_to_g[10] = <<1>>
    /\ cens_g[100] = 1

-----------------------------------------------------------------------------
(* download (download_epss_weekly_2025.py).  The file at dest is absent or *)
(* holds an older download (the chunk 0); a response body is a sequence of *)
(* at most MaxChunks chunks 1.  Every call that can raise (requests.get,   *)
(* raise_for_status, open, iter_content, write, os.replace, os.remove) has *)
(* both of its outcomes.                                                   *)

MaxRetries == 2

MaxChunks == 2

Bodies == {[i \in 1..n |-> 1] : n \in 0..MaxChunks}

OldFiles == {NoFile, FileOf(<<0>>)}

\* kev_weekly_epss_latency.py is not running
LatencyScriptIdle ==
    /\ exc = NoExc
    /\ thresholds = <<>>
    /\ growth = <<>>
    /\ df_columns = {}
    /\ df = <<>>
    /\ bad = 0
    /\ kev_map = EmptyDict
    /\ files = <<>>
    /\ idx = 0
    /\ snap_date = 0
    /\ nread = 0
    /\ matched = 0
    /\ matched_total = 0
    /\ missing_score_date = 0
    /\ rows = <<>>
    /\ row_src = <<>>
    /\ out_csv = <<>>
    /\ time_to_thr = EmptyDict
    /\ cens_thr = EmptyDict
    /\ time_to_g = EmptyDict
    /\ cens_g = EmptyDict
    /\ used_cves = 0
    /\ figs = <<>>

\* log(msg, lvl, verbose)
DlLog(out, msg, lvl) == IF verbose >= lvl THEN Append(out, msg) ELSE out

\* the call download(url, dest, retries, ...): dest and a ".part" left by an earlier run
\* may exist
InitDl ==
    /\ pc = "dl_call"
    /\ stderr = <<>>
    /\ verbose \in {0, 1, 2}
    /\ dest \in OldFiles
    /\ dest0 = dest
    /\ tmp \in OldFiles
    /\ body = <<>>
    /\ retries \in 0..MaxRetries
    /\ attempt = 0
    /\ status = "none"
    /\ result = "none"
    /\ http_calls = 0
    /\ replaced = 0
    /\ rm_failed = FALSE
    /\ LatencyScriptIdle
    /\ KeIdle

\* a cleanup that leaves the ".part" file where it is
RemoveTmp_skip == UNCHANGED <<tmp, rm_failed>>

\* "if os.path.exists(tmp): try: os.remove(tmp) except OSError: pass"
RemoveTmp ==
    IF tmp.exists
    THEN \/ tmp' = NoFile /\ UNCHANGED rm_failed
         \/ rm_failed' = TRUE /\ UNCHANGED tmp
    ELSE UNCHANGED <<tmp, rm_failed>>

\* lines 39-44: a ".part" left behind is removed before the first attempt
DlRemoveStale ==
    /\ pc = "dl_call"
    /\ RemoveTmp
    /\ pc' = "dl_loop"
    /\ UNCHANGED <<stderr, verbose, dest, body, retries, attempt, status, result, dest0,
                   http_calls, replaced, latencyScriptVars>>
    /\ UNCHANGED keVars

\* the head of one attempt: requests.get, the 404 test and raise_for_status
DlGet ==
    /\ pc = "dl_loop"
    /\ attempt < retries
    /\ attempt' = attempt + 1
    /\ http_calls' = http_calls + 1
    /\ \/ /\ status' = "error"
          /\ stderr' = DlLog(stderr, [tag |-> "GET", args |-> <<attempt + 1, retries>>], 2)
          /\ pc' = "dl_except"
          /\ UNCHANGED <<body, result>>
       \/ /\ status' = "404"
          /\ stderr' = DlLog(DlLog(stderr, [tag |-> "GET", args |-> <<attempt + 1, retries>>], 2),
                             [tag |-> "404 Not Found", args |-> <<>>], 1)
          /\ result' = "false"
          /\ pc' = "dl_done"
          /\ UNCHANGED body
       \/ /\ status' = "200"
          /\ stderr' = DlLog(stderr, [tag |-> "GET", args |-> <<attempt + 1, retries>>], 2)
          /\ body' \in Bodies
          /\ pc' = "dl_open"
          /\ UNCHANGED result
    /\ UNCHANGED <<verbose, dest, tmp, retries, dest0, replaced, rm_failed, latencyScriptVars>>
    /\ UNCHANGED keVars

\* open(tmp, "wb"): the ".part" file is created or truncated, or OSError
DlOpen ==
    /\ pc = "dl_open"
    /\ \/ tmp' = FileOf(<<>>) /\ pc' = "dl_write"
       \/ UNCHANGED tmp /\ pc' = "dl_except"
    /\ UNCHANGED <<stderr, verbose, dest, body, retries, attempt, status, result, dest0,
                   http_calls, replaced, rm_failed, latencyScriptVars>>
    /\ UNCHANGED keVars

\* one iteration of "for chunk in r.iter_content(...)": the chunk is written, or the
\* connection or the write fails
DlWriteChunk ==
    /\ pc = "dl_write"
    /\ Len(tmp.data) < Len(body)
    /\ \/ tmp' = FileOf(Append(tmp.data, body[Len(tmp.data) + 1])) /\ UNCHANGED pc
       \/ UNCHANGED tmp /\ pc' = "dl_except"
    /\ UNCHANGED <<stderr, verbose, dest, body, retries, attempt, status, result, dest0,
                   http_calls, replaced, rm_failed, latencyScriptVars>>
    /\ UNCHANGED keVars

\* the body is exhausted: os.replace(tmp, dest) and return True, or an exception at the
\* end of the stream or in os.replace
DlReplace ==
    /\ pc = "dl_write"
    /\ Len(tmp.data) = Len(body)
    /\ \/ /\ dest' = tmp
          /\ tmp' = NoFile
          /\ replaced' = replaced + 1
          /\ result' = "true"
          /\ pc' = "dl_done"
       \/ /\ pc' = "dl_except"
          /\ UNCHANGED <<dest, tmp, replaced, result>>
    /\ UNCHANGED <<stderr, verbose, body, retries, attempt, status, dest0, http_calls,
                   rm_failed, latencyScriptVars>>
    /\ UNCHANGED keVars

\* "except Exception as e": the message, the cleanup and the sleep
DlExcept ==
    /\ pc = "dl_except"
    /\ stderr' = DlLog(stderr, [tag |-> "error", args |-> <<>>], 1)
    /\ RemoveTmp
    /\ pc' = "dl_loop"
    /\ UNCHANGED <<verbose, dest, body, retries, attempt, status, result, dest0, http_calls,
                   replaced, latencyScriptVars>>
    /\ UNCHANGED keVars

\* the loop is over: return False
DlGiveUp ==
    /\ pc = "dl_loop"
    /\ attempt >= retries
    /\ result' = "false"
    /\ pc' = "dl_done"
    /\ UNCHANGED <<stderr, verbose, dest, tmp, body, retries, attempt, status, dest0,
                   http_calls, replaced, rm_failed, latencyScriptVars>>
    /\ UNCHANGED keVars

NextDl ==
    \/ DlRemoveStale
    \/ DlGet
    \/ DlOpen
    \/ DlWriteChunk
    \/ DlReplace
    \/ DlExcept
    \/ DlGiveUp

SpecDl == InitDl /\ [][NextDl]_vars

-----------------------------------------------------------------------------
(* C14 (as amended): download integrity.  The file at dest is changed only *)
(* by the one os.replace of the attempt that returns True, which puts the  *)
(* completely written ".part" file in its place; while download runs and   *)
(* whenever it returns False the file at dest is as it was before the      *)
(* call.  After a return of False a ".part" file remains only if an        *)
(* os.remove of it raised OSError, which download ignores; after a return  *)
(* of True none remains.  At most retries requests are made and a 404 ends *)
(* the call at once with False.                                            *)
C14_DownloadIntegrity ==
    /\ dest # dest0 => result = "true"
    /\ replaced = IF result = "true" THEN 1 ELSE 0
    /\ result = "true" =>
           /\ status = "200"
           /\ dest = FileOf(body)
           /\ ~tmp.exists
    /\ result = "false" =>
           /\ dest = dest0
           /\ tmp.exists => rm_failed
    /\ http_calls = attempt
    /\ http_calls <= retries
    /\ status = "404" => result = "false"
    /\ result # "none" => (pc = "dl_done" /\ ~ENABLED NextDl)

\* C14 witness: two attempts, the last one failed in mid-stream, its ".part" was removed
\* and download returned False with the older file untouched
C14_Witness ==
    /\ result = "false"
    /\ retries = 2
    /\ http_calls = 2
    /\ status = "200"
    /\ body # <<>>
    /\ ~rm_failed
    /\ ~tmp.exists
    /\ dest = FileOf(<<0>>)

\* C14 as stated: whenever download returns False the file at dest is as before the call
\* and no ".part" file remains
C14_Original ==
    result = "false" => (dest = dest0 /\ ~tmp.exists)

-----------------------------------------------------------------------------
(* kev_2025_epss.py: main, run again and again on one output file.  A KEV  *)
(* row is [cveID, dateAdded], dateAdded a day of the selected year or 0    *)
(* for a date of another year; a line of the output is the header or the   *)
(* row of a CVE with its two error fields.  A run ends by returning, by an *)
(* exception or KeyboardInterrupt (the with statement closes f, which      *)
(* flushes it) or by a kill (SIGKILL, SIGTERM, power loss: what f has      *)
(* buffered is lost).                                                      *)

MaxCatalog == 2

MaxRuns == 3

KevCsvRows == [cveID : KeCves \cup {""}, dateAdded : 0..MaxDate]

Catalogs == UNION {[1..n -> KevCsvRows] : n \in 0..MaxCatalog}

HeaderLine == [kind |-> "header", cve |-> "", err_a |-> FALSE, err_b |-> FALSE]

RowLine(cve, err_a, err_b) == [kind |-> "row", cve |-> cve, err_a |-> err_a, err_b |-> err_b]

\* the order of the strings compared
CveRank(c) == IF c = "CVE-A" THEN 1 ELSE 2

\* lines 185-191: the rows of the year with a CVE id
FilterYear(krows) == SelectSeq(krows, LAMBDA r : r.dateAdded >= 1 /\ r.cveID # "")

\* one step of the stable sort by (dateAdded, cveID)
InsertKevRow(sorted, r) ==
    LET k == Cardinality({i \in 1..Len(sorted) :
                 \/ sorted[i].dateAdded < r.dateAdded
                 \/ /\ sorted[i].dateAdded = r.dateAdded
                    /\ CveRank(sorted[i].cveID) <= CveRank(r.cveID)})
    IN  SubSeq(sorted, 1, k) \o <<r>> \o SubSeq(sorted, k + 1, Len(sorted))

RECURSIVE SortKevRows(_)
SortKevRows(l) ==
    IF l = <<>> THEN <<>>
    ELSE InsertKevRow(SortKevRows(SubSeq(l, 1, Len(l) - 1)), l[Len(l)])

\* read_done_cves(out_csv): csv.DictReader takes the first line for the field names,
\* so a file that starts with a data row has no field cveID
ReadDoneCves(file) ==
    IF ~file.exists \/ file.data = <<>> THEN {}
    ELSE IF file.data[1].kind = "header"
         THEN {file.data[i].cve : i \in 2..Len(file.data)} \ {""}
         ELSE {}

\* f.flush(), and f.close() at the exit of the with statement
Flushed == FileOf(out_file.data \o f_buffer)

InitKe ==
    /\ pc = "ke_idle"
    /\ stderr = <<>>
    /\ verbose = 0
    /\ kev_rows \in Catalogs
    /\ out_file = NoFile
    /\ f_buffer = <<>>
    /\ resume = FALSE
    /\ year_rows = <<>>
    /\ done = {}
    /\ row_idx = 0
    /\ processed = 0
    /\ skipped = 0
    /\ err_added = 0
    /\ err_current = 0
    /\ runs = 0
    /\ file0 = NoFile
    /\ fetches = [c \in KeCves |-> 0]
    /\ LatencyScriptIdle
    /\ DlIdle

\* a new process: the first run with or without --resume, every later run with --resume
KeNewRun ==
    /\ pc \in {"ke_idle", "ke_stopped", "ke_done"}
    /\ runs < MaxRuns
    /\ runs' = runs + 1
    /\ resume' \in IF runs = 0 THEN BOOLEAN ELSE {TRUE}
    /\ file0' = out_file
    /\ row_idx' = 0
    /\ processed' = 0
    /\ skipped' = 0
    /\ err_added' = 0
    /\ err_current' = 0
    /\ fetches' = [c \in KeCves |-> 0]

\* lines 178-182: load_kev_rows raises, or the KEV CSV lacks a column (SystemExit)
KeLoadFail ==
    /\ KeNewRun
    /\ stderr' = <<[tag |-> "load failed", args |-> <<>>]>>
    /\ f_buffer' = <<>>
    /\ pc' = "ke_stopped"
    /\ UNCHANGED <<verbose, kev_rows, out_file, year_rows, done, latencyScriptVars, dlVars>>

\* lines 178-231: the KEV rows of the year, the done set, the output file opened and,
\* in mode "w", the header written to f
KeStart ==
    /\ KeNewRun
    /\ year_rows' = SortKevRows(FilterYear(kev_rows))
    /\ IF year_rows' = <<>>
       THEN /\ stderr' = <<[tag |-> "No KEV rows", args |-> <<>>]>>
            /\ f_buffer' = <<>>
            /\ pc' = "ke_stopped"
            /\ UNCHANGED <<done, out_file>>
       ELSE /\ done' = IF resume' THEN ReadDoneCves(out_file) ELSE {}
            /\ stderr' = IF resume'
                         THEN <<[tag |-> "Resume enabled",
                                 args |-> <<Cardinality(ReadDoneCves(out_file))>>]>>
                         ELSE <<>>
            /\ IF resume' /\ out_file.exists
               THEN f_buffer' = <<>> /\ UNCHANGED out_file
               ELSE f_buffer' = <<HeaderLine>> /\ out_file' = FileOf(<<>>)
            /\ pc' = "ke_loop"
    /\ UNCHANGED <<verbose, kev_rows, latencyScriptVars, dlVars>>

\* lines 240-245: a CVE of the done set is skipped
KeSkip ==
    /\ pc = "ke_loop"
    /\ row_idx < Len(year_rows)
    /\ year_rows[row_idx + 1].cveID \in done
    /\ skipped' = skipped + 1
    /\ row_idx' = row_idx + 1
    /\ UNCHANGED <<pc, stderr, verbose, kev_rows, out_file, f_buffer, resume, year_rows, done,
                   processed, err_added, err_current, runs, file0, fetches,
                   latencyScriptVars, dlVars>>

\* lines 247-285: the two calls of fetch_epss_one, each with or without an error, and
\* w.writerow(row_out)
KeFetchWrite ==
    /\ pc = "ke_loop"
    /\ row_idx < Len(year_rows)
    /\ LET cve == year_rows[row_idx + 1].cveID
       IN  /\ cve \notin done
           /\ fetches' = [fetches EXCEPT ![cve] = @ + 2]
           /\ \E err_a, err_b \in BOOLEAN :
                 /\ err_added' = err_added + (IF err_a THEN 1 ELSE 0)
                 /\ err_current' = err_current + (IF err_b THEN 1 ELSE 0)
                 /\ f_buffer' = Append(f_buffer, RowLine(cve, err_a, err_b))
    /\ pc' = "ke_written"
    /\ UNCHANGED <<stderr, verbose, kev_rows, out_file, resume, year_rows, done, row_idx,
                   processed, skipped, runs, file0, latencyScriptVars, dlVars>>

\* lines 286-289: f.flush(), processed += 1 and the sleep
KeFlush ==
    /\ pc = "ke_written"
    /\ out_file' = Flushed
    /\ f_buffer' = <<>>
    /\ processed' = processed + 1
    /\ row_idx' = row_idx + 1
    /\ pc' = "ke_loop"
    /\ UNCHANGED <<stderr, verbose, kev_rows, resume, year_rows, done, skipped, err_added,
                   err_current, runs, file0, fetches, latencyScriptVars, dlVars>>

\* the loop is over: f is closed and the "Done." line logged
KeFinish ==
    /\ pc = "ke_loop"
    /\ row_idx = Len(year_rows)
    /\ out_file' = Flushed
    /\ f_buffer' = <<>>
    /\ stderr' = Append(stderr, [tag |-> "Done",
                                 args |-> <<Len(year_rows), processed, skipped, err_added,
                                            err_current>>])
    /\ pc' = "ke_done"
    /\ UNCHANGED <<verbose, kev_rows, resume, year_rows, done, row_idx, processed, skipped,
                   err_added, err_current, runs, file0, fetches, latencyScriptVars, dlVars>>

\* the run is interrupted by KeyboardInterrupt or an exception: the with statement
\* closes f
KeInterrupt ==
    /\ pc \in {"ke_loop", "ke_written"}
    /\ out_file' = Flushed
    /\ f_buffer' = <<>>
    /\ pc' = "ke_stopped"
    /\ UNCHANGED <<stderr, verbose, kev_rows, resume, year_rows, done, row_idx, processed,
                   skipped, err_added, err_current, runs, file0, fetches,
                   latencyScriptVars, dlVars>>

\* the process is killed: the lines f has buffered never reach the file
KeKill ==
    /\ pc \in {"ke_loop", "ke_written"}
    /\ f_buffer' = <<>>
    /\ pc' = "ke_stopped"
    /\ UNCHANGED <<stderr, verbose, kev_rows, out_file, resume, year_rows, done, row_idx,
                   processed, skipped, err_added, err_current, runs, file0, fetches,
                   latencyScriptVars, dlVars>>

NextKe ==
    \/ KeLoadFail
    \/ KeStart
    \/ KeSkip
    \/ KeFetchWrite
    \/ KeFlush
    \/ KeFinish
    \/ KeInterrupt
    \/ KeKill

SpecKe == InitKe /\ [][NextKe]_vars

-----------------------------------------------------------------------------
(* C15 as stated: resume safety.  In a run with --resume on an existing    *)
(* output file the lines already in the file stay where they are, no       *)
(* fetch is made for a CVE that has a row in the file, and a CVE without   *)
(* one is written once; so when a run with --resume has ended, after       *)
(* whatever interrupted runs, the file, unless empty, holds one header     *)
(* and at most one row per CVE, and when it has completed, one row for     *)
(* every KEV CVE of the year.  (Stated for a KEV CSV that lists no CVE of  *)
(* the year twice.)                                                        *)
YearCves == {r.cveID : r \in Range(FilterYear(kev_rows))}

ListedOnce ==
    \A i, j \in 1..Len(kev_rows) :
        (i # j /\ kev_rows[i].cveID = kev_rows[j].cveID) => kev_rows[i].dateAdded = 0

RecordedIn(file) == {file.data[i].cve : i \in {j \in 1..Len(file.data) : file.data[j].kind = "row"}}

RowCount(file, c) ==
    Cardinality({i \in 1..Len(file.data) : file.data[i].kind = "row" /\ file.data[i].cve = c})

HeaderCount(file) == Cardinality({i \in 1..Len(file.data) : file.data[i].kind = "header"})

InResumeRun ==
    /\ pc \in {"ke_loop", "ke_written", "ke_stopped", "ke_done"}
    /\ runs >= 1
    /\ resume
    /\ file0.exists

C15_ResumeSafety ==
    (ListedOnce /\ InResumeRun) =>
        /\ Len(out_file.data) >= Len(file0.data)
        /\ SubSeq(out_file.data, 1, Len(file0.data)) = file0.data
        /\ \A c \in RecordedIn(file0) : fetches[c] = 0
        /\ (pc \in {"ke_stopped", "ke_done"} /\ out_file.data # <<>>) =>
               /\ HeaderCount(out_file) = 1
               /\ out_file.data[1] = HeaderLine
               /\ \A c \in KeCves : RowCount(out_file, c) <= 1
        /\ pc = "ke_done" =>
               /\ \A c \in YearCves \ RecordedIn(file0) : RowCount(out_file, c) = 1
               /\ \A c \in YearCves : RowCount(out_file, c) = 1

====
